---- MODULE Spec2Model ----
(***************************************************************************)
(* Refresh-token rotation as written in the guide embedded in              *)
(* apps/examples/solid-start/src/root.tsx: the `jwt`/`session` callbacks   *)
(* of the JWT strategy and the `session` callback of the database          *)
(* strategy, run by up to two concurrent requests against an OAuth         *)
(* provider's token endpoint.                                              *)
(*                                                                         *)
(* Time is Date.now() in milliseconds; expires_at and expires_in are in    *)
(* seconds, as in the source.  Credentials are small positive integers,   *)
(* handed out by the provider in the order it issues them.                 *)
(***************************************************************************)
EXTENDS Integers, Sequences, FiniteSets, TLC

\* ---------------------------------------------------------------- bounds
MaxNowSec == 2          \* the clock stops advancing at this many seconds
MaxIssued == 3          \* credentials the provider issues in one behaviour

\* ------------------------------------------------------------- constants
MsPerSec == 1000        \* `* 1000` and `/ 1000` of the expiry arithmetic
Absent == 0             \* an undefined/null refresh_token
NoError == "none"       \* the `error` property is not set
RefreshAccessTokenError == "RefreshAccessTokenError"

Procs == {1, 2}         \* requests that may be in flight together
Lifetimes == {0, 1}     \* the expires_in values (seconds) the provider grants
ClockSteps == {MsPerSec \div 2, MsPerSec}

NoToken == [access_token |-> 0, expires_at |-> 0, refresh_token |-> Absent,
            error |-> NoError]
NoResponse == [ok |-> FALSE, failure |-> "none", access_token |-> 0,
               expires_in |-> 0, refresh_token |-> Absent]
NewSession == [error |-> NoError]

\* a request slot nobody is using
Idle == [pc |-> "idle", bootstrap |-> FALSE, account |-> << >>,
         token |-> NoToken,
         googleAccount |-> << >>, decidedSec |-> 0, due |-> FALSE, calls |-> 0,
         responseTokens |-> NoResponse, result |-> NoToken,
         session |-> NewSession, thrown |-> FALSE, heldValid |-> FALSE]

VARIABLES
  strategy,   \* "jwt" or "database": which auth.ts is deployed
  provider,   \* [rotates]: does the token endpoint rotate refresh tokens
  now,        \* Date.now(), in ms
  accepted,   \* refresh credentials the provider currently honours
  issued,     \* how many credentials the provider has issued
  jwt,        \* the encoded session token the browser holds
  accounts,   \* the prisma account rows of (user, "google"): 0 or 1
  slots,      \* how many requests the deployment serves at a time
  req         \* per request slot, the running callback:
              \*   pc             where it is suspended
              \*   bootstrap      was an `account` (fresh sign-in) passed
              \*   account        the `account` argument, when one was passed
              \*   token          the `token` argument of the jwt callback
              \*   googleAccount  the array findMany resolved to
              \*   decidedSec     the second Date.now() was in when the expiry
              \*                  test sent it to the token endpoint
              \*   due            was now >= expiry when the test was made
              \*   calls          fetches sent to the token endpoint
              \*   responseTokens the provider's answer
              \*   result         token returned / row data left behind
              \*   session        the session object handed to the client
              \*   thrown         the callback rejected instead of returning
              \*   heldValid      provider honoured its credential at start

vars == <<strategy, provider, now, accepted, issued, jwt, accounts, slots,
          req>>

\* ------------------------------------------------- the callbacks' pieces

\* variant: the seconds of expires_at are compared with milliseconds
JwtStillValidSeconds(nowMs, t) == nowMs < t.expires_at

\* `Date.now() < token.expires_at * 1000`
JwtStillValid(nowMs, t) == nowMs < t.expires_at * MsPerSec

\* `googleAccount.expires_at * 1000 < Date.now()`
DbExpired(nowMs, row) == row.expires_at * MsPerSec < nowMs

\* variant: expires_in added to the milliseconds, not to the seconds
NewExpiresAtUnitSlip(nowMs, expires_in) == (nowMs + expires_in) \div MsPerSec

\* `Math.floor(Date.now() / 1000 + responseTokens.expires_in)`
NewExpiresAt(nowMs, expires_in) == (nowMs + expires_in * MsPerSec) \div MsPerSec

\* variant: no fallback, the answer's refresh_token is taken as it comes
OrElseSupplied(supplied, previous) == supplied

\* `responseTokens.refresh_token ?? previous`
OrElse(supplied, previous) == IF supplied # Absent THEN supplied ELSE previous

\* variant: a token that carries an error tag is not refreshed again
MissingRefreshTokenOrTagged(t) == t.refresh_token = Absent \/ t.error # NoError

\* `!token.refresh_token`
MissingRefreshToken(t) == t.refresh_token = Absent

\* what the jwt callback does with a token that came without an account:
\* lines 107-112, the expiry test and then the refresh_token test
JwtDecision(nowMs, t) ==
  IF JwtStillValid(nowMs, t) THEN "reuse"
  ELSE IF MissingRefreshToken(t) THEN "throw"
  ELSE "refresh"

\* what the database session callback does with the row it read: line 208
DbDecision(nowMs, row) == IF DbExpired(nowMs, row) THEN "refresh" ELSE "reuse"

\* variant: the account's refresh_token is not copied
JwtFirstLoginNoRefresh(account) ==
  [access_token |-> account.access_token, expires_at |-> account.expires_at,
   refresh_token |-> Absent, error |-> NoError]

\* the object returned on first login
JwtFirstLogin(account) ==
  [access_token |-> account.access_token, expires_at |-> account.expires_at,
   refresh_token |-> account.refresh_token, error |-> NoError]

\* variant: expires_at is left out of the returned object
JwtRefreshedKeepsExpiry(t, resp, nowMs) ==
  [t EXCEPT !.access_token = resp.access_token,
            !.refresh_token = IF resp.refresh_token # Absent
                                THEN resp.refresh_token ELSE t.refresh_token]

\* `{ ...token, access_token, expires_at, refresh_token }`
JwtRefreshed(t, resp, nowMs) ==
  [t EXCEPT !.access_token = resp.access_token,
            !.expires_at = NewExpiresAt(nowMs, resp.expires_in),
            !.refresh_token = OrElse(resp.refresh_token, t.refresh_token)]

\* variant: the answer's status is never looked at
RejectedNever(resp) == FALSE

\* `if (!response.ok) throw responseTokens`, or the fetch itself rejected
Rejected(resp) == ~resp.ok

\* variant: the spread of the previous token is forgotten
JwtFailedNoSpread(t) == [NoToken EXCEPT !.error = RefreshAccessTokenError]

\* `{ ...token, error: "RefreshAccessTokenError" }`
JwtFailed(t) == [t EXCEPT !.error = RefreshAccessTokenError]

\* variant: what was caught is put on the token
JwtCatchLeaks(t, error) == [t EXCEPT !.error = error]

\* `catch (error) { console.error(..., error); return { ...token, error: ... } }`
\* what was caught goes to the log only
JwtCatch(t, error) == JwtFailed(t)

\* the jwt strategy's session callback: copies token.user, nothing else
JwtSessionCallback(s, t) == s

\* variant: the update leaves the refresh_token column out
DbUpdateDataKeepsRefresh(row, resp, nowMs) ==
  [access_token |-> resp.access_token,
   expires_at |-> (nowMs + resp.expires_in * MsPerSec) \div MsPerSec,
   refresh_token |-> row.refresh_token]

\* variant: the refresh_token column is set to what the answer holds
DbUpdateDataNoFallback(row, resp, nowMs) ==
  [access_token |-> resp.access_token,
   expires_at |-> (nowMs + resp.expires_in * MsPerSec) \div MsPerSec,
   refresh_token |-> resp.refresh_token]

\* the `data` of prisma.account.update
DbUpdateData(row, resp, nowMs) ==
  [access_token |-> resp.access_token,
   expires_at |-> NewExpiresAt(nowMs, resp.expires_in),
   refresh_token |-> OrElse(resp.refresh_token, row.refresh_token)]

\* `session.error = "RefreshAccessTokenError"`
DbFailed(s) == [s EXCEPT !.error = RefreshAccessTokenError]

\* `catch (error) { console.error(..., error); session.error = ... }`
DbCatch(s, error) == DbFailed(s)

Row(t) == [access_token |-> t.access_token, expires_at |-> t.expires_at,
           refresh_token |-> t.refresh_token]
AsToken(row) == [access_token |-> row.access_token, expires_at |-> row.expires_at,
                 refresh_token |-> row.refresh_token, error |-> NoError]

\* ------------------------------------------------------------ bookkeeping
Resting(p) == req[p].pc \in {"idle", "done"}
InFlight(p) == ~Resting(p)

\* a new request takes the first free slot
Free(p) == p <= slots /\ Resting(p) /\ \A q \in Procs : q < p => InFlight(q)

\* the stored tuple a request was handed
Input(p) == IF strategy = "jwt" THEN req[p].token
            ELSE IF Len(req[p].googleAccount) > 0
              THEN AsToken(req[p].googleAccount[1])
            ELSE NoToken

\* the claim-side reading of "expired": now >= expiry
Due(nowMs, t) == nowMs >= t.expires_at * MsPerSec

\* request p starts with the locals `started`; the locals of a request that
\* finished earlier are dropped, so two requests are "done" together only
\* if they overlapped
Begin(p, started) ==
  req' = [q \in Procs |->
            IF q = p THEN started ELSE IF Resting(q) THEN Idle ELSE req[q]]

\* request p moves on with the locals `next`
Step(p, next) == req' = [req EXCEPT ![p] = next]

Env == <<strategy, provider, slots>>
Stores == <<jwt, accounts>>
Idp == <<accepted, issued>>

\* ------------------------------------------------------------------ Init
Setup ==
  /\ strategy \in {"jwt", "database"}
  /\ provider \in [rotates : BOOLEAN]
  /\ now = 0
  /\ issued = 1
  /\ \E e \in Lifetimes, r \in {Absent, 1}, hasRow \in BOOLEAN :
       LET first == [access_token |-> 1, expires_at |-> e, refresh_token |-> r,
                     error |-> NoError]
       IN /\ accepted = {r} \ {Absent}
          /\ IF strategy = "jwt"
               THEN hasRow /\ jwt = first /\ accounts = << >>
               ELSE jwt = NoToken
                    /\ accounts = IF hasRow THEN <<Row(first)>> ELSE << >>
          /\ (~hasRow => e = 0 /\ r = Absent)
  /\ req = [p \in Procs |-> Idle]

\* one request at a time
Init == Setup /\ slots = 1

\* requests of one browser session may overlap
RaceInit == Setup /\ slots = 2

\* --------------------------------------------------------------- actions

\* Date.now() moves on
Tick ==
  /\ \E d \in ClockSteps :
       /\ now + d <= MaxNowSec * MsPerSec
       /\ now' = now + d
  /\ UNCHANGED <<Env, Stores, Idp, req>>

\* jwt callback, `if (account)`: a full sign-in hands over a fresh account
JwtSignIn(p) ==
  /\ strategy = "jwt"
  /\ Free(p)
  /\ issued < MaxIssued
  /\ \E e \in Lifetimes, hasRefresh \in BOOLEAN :
       LET id == issued + 1
           account == [access_token |-> id,
                       expires_at |-> NewExpiresAt(now, e),
                       refresh_token |-> IF hasRefresh THEN id ELSE Absent]
       IN /\ issued' = id
          /\ accepted' = IF hasRefresh THEN {id} ELSE {}
          /\ Begin(p, [Idle EXCEPT !.pc = "returned", !.bootstrap = TRUE,
                                   !.account = <<account>>,
                                   !.token = jwt,
                                   !.result = JwtFirstLogin(account)])
  /\ UNCHANGED <<Env, Stores, now>>

\* jwt callback without an account, up to its return, throw or `await fetch`
JwtCallback(p) ==
  /\ strategy = "jwt"
  /\ Free(p)
  /\ LET started == [Idle EXCEPT !.token = jwt, !.due = Due(now, jwt),
                                 !.heldValid = jwt.refresh_token \in accepted]
     IN CASE JwtDecision(now, jwt) = "reuse" ->
               Begin(p, [started EXCEPT !.pc = "returned", !.result = jwt])
          [] JwtDecision(now, jwt) = "throw" ->
               Begin(p, [started EXCEPT !.pc = "done", !.thrown = TRUE])
          [] JwtDecision(now, jwt) = "refresh" ->
               Begin(p, [started EXCEPT !.pc = "fetching", !.calls = 1,
                                        !.decidedSec = now \div MsPerSec])
  /\ UNCHANGED <<Env, Stores, Idp, now>>

\* the token endpoint honours the refresh_token it was sent
ProviderGrants(p) ==
  /\ req[p].pc = "fetching"
  /\ Input(p).refresh_token \in accepted
  /\ issued < MaxIssued
  /\ \E e \in Lifetimes :
       LET id == issued + 1 IN
       /\ issued' = id
       /\ accepted' = IF provider.rotates
                        THEN (accepted \ {Input(p).refresh_token}) \cup {id}
                        ELSE accepted
       /\ Step(p, [req[p] EXCEPT !.pc = "answered", !.responseTokens =
            [ok |-> TRUE, failure |-> "none", access_token |-> id,
             expires_in |-> e,
             refresh_token |-> IF provider.rotates THEN id ELSE Absent]])
  /\ UNCHANGED <<Env, Stores, now>>

\* the token endpoint answers non-2xx, or the request fails in transit
\* (a request that fails leaves the provider's credentials as they were)
ProviderFails(p) ==
  /\ req[p].pc = "fetching"
  /\ \E f \in {"invalid_grant", "server_error", "transport"} :
       /\ f = "invalid_grant" <=> Input(p).refresh_token \notin accepted
       /\ Step(p, [req[p] EXCEPT !.pc = "answered", !.responseTokens =
            [NoResponse EXCEPT !.failure = f]])
  /\ UNCHANGED <<Env, Stores, Idp, now>>

\* jwt callback resumed after the fetch: the success return or the catch
JwtResume(p) ==
  /\ strategy = "jwt"
  /\ req[p].pc = "answered"
  /\ Step(p, [req[p] EXCEPT !.pc = "returned", !.result =
       IF Rejected(req[p].responseTokens)
         THEN JwtCatch(req[p].token, req[p].responseTokens.failure)
         ELSE JwtRefreshed(req[p].token, req[p].responseTokens, now)])
  /\ UNCHANGED <<Env, Stores, Idp, now>>

\* the session callback of the jwt strategy; the returned token is what the
\* next request carries
JwtSession(p) ==
  /\ strategy = "jwt"
  /\ req[p].pc = "returned"
  /\ Step(p, [req[p] EXCEPT !.pc = "done", !.session =
       JwtSessionCallback(req[p].session, req[p].result)])
  /\ jwt' = req[p].result
  /\ UNCHANGED <<Env, accounts, Idp, now>>

\* database session callback: `await prisma.account.findMany(...)`
DbFindMany(p) ==
  /\ strategy = "database"
  /\ Free(p)
  /\ Begin(p, [Idle EXCEPT !.pc = "found", !.googleAccount = accounts,
        !.heldValid = Len(accounts) > 0 /\ accounts[1].refresh_token \in accepted])
  /\ UNCHANGED <<Env, Stores, Idp, now>>

\* database session callback: the expiry test, up to return or `await fetch`
DbCheck(p) ==
  /\ strategy = "database"
  /\ req[p].pc = "found"
  /\ IF Len(req[p].googleAccount) = 0
       THEN Step(p, [req[p] EXCEPT !.pc = "done", !.thrown = TRUE])
     ELSE LET googleAccount == req[p].googleAccount[1]
              tested == [req[p] EXCEPT !.due = Due(now, googleAccount)]
          IN IF DbDecision(now, googleAccount) = "refresh"
               THEN Step(p, [tested EXCEPT !.pc = "fetching", !.calls = @ + 1,
                                           !.decidedSec = now \div MsPerSec])
               ELSE Step(p, [tested EXCEPT !.pc = "done",
                                           !.result = AsToken(googleAccount)])
  /\ UNCHANGED <<Env, Stores, Idp, now>>

\* database session callback resumed after the fetch: update or catch
\* (prisma.account.update on the row just read is taken to resolve)
DbResume(p) ==
  /\ strategy = "database"
  /\ req[p].pc = "answered"
  /\ LET googleAccount == req[p].googleAccount[1] IN
     IF Rejected(req[p].responseTokens)
       THEN /\ Step(p, [req[p] EXCEPT !.pc = "done",
                                      !.session =
                          DbCatch(@, req[p].responseTokens.failure),
                                      !.result = AsToken(googleAccount)])
            /\ UNCHANGED accounts
       ELSE LET data == DbUpdateData(googleAccount, req[p].responseTokens, now)
            IN /\ accounts' = <<data>>
               /\ Step(p, [req[p] EXCEPT !.pc = "done",
                                         !.result = AsToken(data)])
  /\ UNCHANGED <<Env, jwt, Idp, now>>

Next ==
  \/ Tick
  \/ \E p \in Procs : JwtSignIn(p)
  \/ \E p \in Procs : JwtCallback(p)
  \/ \E p \in Procs : ProviderGrants(p)
  \/ \E p \in Procs : ProviderFails(p)
  \/ \E p \in Procs : JwtResume(p)
  \/ \E p \in Procs : JwtSession(p)
  \/ \E p \in Procs : DbFindMany(p)
  \/ \E p \in Procs : DbCheck(p)
  \/ \E p \in Procs : DbResume(p)

Spec == Init /\ [][Next]_vars

\* overlapping requests on one stored tuple, between two sign-ins
RaceNext ==
  \/ Tick
  \/ \E p \in Procs : JwtCallback(p)
  \/ \E p \in Procs : ProviderGrants(p)
  \/ \E p \in Procs : ProviderFails(p)
  \/ \E p \in Procs : JwtResume(p)
  \/ \E p \in Procs : JwtSession(p)
  \/ \E p \in Procs : DbFindMany(p)
  \/ \E p \in Procs : DbCheck(p)
  \/ \E p \in Procs : DbResume(p)

RaceSpec == RaceInit /\ [][RaceNext]_vars

TypeOK ==
  /\ now \in 0..(MaxNowSec * MsPerSec)
  /\ issued \in 1..MaxIssued
  /\ accepted \subseteq 1..MaxIssued
  /\ \A p \in Procs : req[p].calls \in 0..1

\* ------------------------------------------------------- claim vocabulary
Done(p) == req[p].pc = "done"
Returned(p) == Done(p) /\ ~req[p].thrown
HasInput(p) == strategy = "jwt" \/ Len(req[p].googleAccount) > 0
Triple(t) == <<t.access_token, t.expires_at, t.refresh_token>>
Stored == IF strategy = "jwt" THEN jwt
          ELSE IF Len(accounts) > 0 THEN AsToken(accounts[1]) ELSE NoToken

HasStored == strategy = "jwt" \/ Len(accounts) > 0

\* the status a request ends with: the tag on the returned token (jwt) or on
\* the session object (database)
Status(p) == IF strategy = "jwt" THEN req[p].result.error
             ELSE req[p].session.error

Renewal(p) == Done(p) /\ ~req[p].bootstrap /\ HasInput(p)
Refreshed(p) == Renewal(p) /\ req[p].calls = 1 /\ req[p].responseTokens.ok
ExchangeFailed(p) == Renewal(p) /\ req[p].calls = 1 /\ ~req[p].responseTokens.ok

\* C1 (as claimed): a request that found now < expiry hands back the stored
\* tuple unchanged, with no error tag on tuple or session, and sent no fetch.
C1_ReuseIsUnchangedAndOk ==
  \A p \in Procs :
    Renewal(p) /\ ~req[p].due =>
      /\ ~req[p].thrown
      /\ Triple(req[p].result) = Triple(Input(p))
      /\ req[p].result.error = NoError
      /\ req[p].session.error = NoError
      /\ req[p].calls = 0

\* C2 (as claimed): a request that found now >= expiry and no refresh
\* credential returns with status refresh_error and the stale access
\* credential and expiry.
C2_MissingRefreshReportsError ==
  \A p \in Procs :
    Renewal(p) /\ req[p].due /\ Input(p).refresh_token = Absent =>
      /\ ~req[p].thrown
      /\ Status(p) = RefreshAccessTokenError
      /\ req[p].result.access_token = Input(p).access_token
      /\ req[p].result.expires_at = Input(p).expires_at

\* C3 (as claimed): no request ends in a thrown exception.
C3_NeverThrows == \A p \in Procs : ~req[p].thrown

\* C4 (as claimed): after a successful exchange the new expiry is the instant
\* of the expiry test plus expires_in, and the access credential is the
\* returned one.
C4_ExpiryFromDecisionInstant ==
  \A p \in Procs :
    Refreshed(p) =>
      /\ req[p].result.access_token = req[p].responseTokens.access_token
      /\ req[p].result.expires_at =
           req[p].decidedSec + req[p].responseTokens.expires_in

\* the step in which request p takes up a successful answer
ConsumesGrant(p) ==
  /\ req[p].pc = "answered"
  /\ req'[p].pc # "answered"
  /\ req[p].responseTokens.ok

\* C4 (amended): the step that consumes a successful answer sets the expiry
\* to floor(t/1000 + expires_in), t being Date.now() at that step, which is
\* never earlier than the expiry test; the access credential is the returned
\* one.  In the database strategy this is the row it writes.
C4_ExpiryFromResumeInstant ==
  [][\A p \in Procs :
       ConsumesGrant(p) =>
         LET e == req[p].responseTokens.expires_in
             x == req'[p].result.expires_at
         IN /\ req'[p].result.access_token = req[p].responseTokens.access_token
            /\ x * MsPerSec <= now + e * MsPerSec
            /\ now + e * MsPerSec < (x + 1) * MsPerSec
            /\ x >= req[p].decidedSec + e
            /\ strategy = "database" => Triple(Stored') = Triple(req'[p].result)
    ]_vars

\* C4 witness: a refresh whose exchange outlasted a second of the clock
C4_Witness ==
  \E p \in Procs :
    /\ Refreshed(p)
    /\ req[p].result.expires_at >
         req[p].decidedSec + req[p].responseTokens.expires_in

\* C5 (as claimed): a request whose exchange succeeded ends with status ok.
C5_SuccessYieldsOk ==
  \A p \in Procs : Refreshed(p) => Status(p) = NoError

\* C6: a request whose exchange failed hands back its input's access
\* credential, expiry and refresh credential with status refresh_error, the
\* stored tuple is as it was, and doing it again changes nothing more.
C6_FailureLeavesTupleAlone ==
  \A p \in Procs :
    ExchangeFailed(p) =>
      /\ ~req[p].thrown
      /\ Triple(req[p].result) = Triple(Input(p))
      /\ Status(p) = RefreshAccessTokenError
      /\ Triple(Stored) = Triple(Input(p))
      /\ JwtFailed(req[p].result) = [req[p].result EXCEPT
                                       !.error = RefreshAccessTokenError]
      /\ DbFailed(req[p].session) = [error |-> RefreshAccessTokenError]
      /\ Input(p).error = RefreshAccessTokenError => req[p].result = Input(p)

\* C6 witness: a second failed exchange in a row on the same token
C6_Witness ==
  \E p \in Procs :
    /\ ExchangeFailed(p)
    /\ Input(p).error = RefreshAccessTokenError
    /\ Input(p).refresh_token # Absent

\* C7: after a successful exchange the refresh credential is the one the
\* answer supplies, else the input's.
C7_RotationLaw ==
  \A p \in Procs :
    Refreshed(p) =>
      /\ req[p].result.refresh_token =
           IF req[p].responseTokens.refresh_token # Absent
             THEN req[p].responseTokens.refresh_token
             ELSE Input(p).refresh_token
      /\ strategy = "database" =>
           Stored.refresh_token = req[p].result.refresh_token

\* C7 witness: a database refresh whose answer omitted refresh_token
C7_Witness ==
  \E p \in Procs :
    /\ Refreshed(p)
    /\ strategy = "database"
    /\ req[p].responseTokens.refresh_token = Absent
    /\ Input(p).refresh_token # Absent

\* C8 (as claimed): the session handed to the client carries the tag exactly
\* when the request ended with status refresh_error.
EndsInRefreshError(p) ==
  IF strategy = "jwt" THEN req[p].result.error = RefreshAccessTokenError
  ELSE ExchangeFailed(p)

C8_SessionCarriesStatus ==
  \A p \in Procs :
    Returned(p) =>
      (req[p].session.error = RefreshAccessTokenError <=> EndsInRefreshError(p))

\* C9 (as claimed): a request sends at most one fetch, and none on the
\* bootstrap path, on the reuse path, or when expired without a refresh
\* credential.
C9_CallBudget ==
  \A p \in Procs :
    /\ req[p].calls <= 1
    /\ Done(p) /\ HasInput(p)
         /\ (req[p].bootstrap \/ ~req[p].due \/ Input(p).refresh_token = Absent)
       => req[p].calls = 0

\* two requests that overlapped on the same expired, untagged tuple whose
\* refresh credential the provider honoured, against a provider that rotates
\* and refuses only what it has rotated away
Raced ==
  /\ provider.rotates
  /\ \A p \in Procs :
       /\ Renewal(p) /\ req[p].due /\ req[p].calls = 1 /\ req[p].heldValid
       /\ Input(p).error = NoError
       /\ ~req[p].responseTokens.ok => req[p].responseTokens.failure = "invalid_grant"
  /\ Input(1) = Input(2)

RaceSettled ==
  /\ Cardinality({p \in Procs : Status(p) = RefreshAccessTokenError}) <= 1
  /\ \E p \in Procs :
       /\ req[p].responseTokens.ok
       /\ Triple(Stored) = Triple(req[p].result)
  /\ Stored.refresh_token \in accepted

\* C10 (as claimed): in either strategy, after both have finished at most one
\* ended with refresh_error and the stored tuple is the successful one's.
C10_RaceBounded == Raced => RaceSettled

\* C10 (amended): that holds in the database strategy.
C10_RaceBoundedDatabase == Raced /\ strategy = "database" => RaceSettled

\* C10 witness: a database race, one granted and one refused
C10_Witness ==
  /\ Raced
  /\ strategy = "database"
  /\ \E p \in Procs : req[p].responseTokens.failure = "invalid_grant"

\* the step in which request p is invoked and handed the stored tuple
Loads(p) == Resting(p) /\ req'[p] # req[p] /\ req'[p].pc # "idle"

\* t is, whole, what the answer held by request p makes of p's input now
OfOneExchange(p, t) ==
  LET e == req[p].responseTokens.expires_in IN
  /\ req[p].responseTokens.ok
  /\ t.access_token = req[p].responseTokens.access_token
  /\ t.expires_at * MsPerSec <= now + e * MsPerSec
  /\ now + e * MsPerSec < (t.expires_at + 1) * MsPerSec
  /\ t.refresh_token = IF req[p].responseTokens.refresh_token # Absent
                         THEN req[p].responseTokens.refresh_token
                         ELSE Input(p).refresh_token

\* C11: a request is handed the stored tuple whole; a successful exchange
\* yields its three fields together; and the stored tuple changes only to
\* the whole tuple of one successful exchange or to a tuple that a request
\* was handed whole.  So what a reader loads is the first tuple or one
\* exchange's triple, never fields of two writes.
C11_AtomicReplacement ==
  [][/\ \A p \in Procs : Loads(p) => Triple(Input(p)') = Triple(Stored)
     /\ \A p \in Procs : ConsumesGrant(p) => OfOneExchange(p, req'[p].result)
     /\ Triple(Stored') # Triple(Stored) =>
          \E p \in Procs :
            /\ Triple(Stored') = Triple(req'[p].result)
            /\ \/ req[p].responseTokens.ok
               \/ Triple(req'[p].result) = Triple(Input(p))
    ]_vars

\* C11 witness: two overlapping refreshes both wrote, the store holds one
C11_Witness ==
  /\ \A p \in Procs : Refreshed(p)
  /\ req[1].result.expires_at # req[2].result.expires_at
  /\ \E p \in Procs : Triple(Stored) = Triple(req[p].result)

\* C12 (as claimed): on every stored tuple and at every instant the two
\* strategies take the same decision, and at now = expiry exactly neither
\* of them reuses the tuple.
C12_SameDecision ==
  HasStored =>
    /\ JwtDecision(now, Stored) = DbDecision(now, Row(Stored))
    /\ now = Stored.expires_at * MsPerSec =>
         /\ JwtDecision(now, Stored) # "reuse"
         /\ DbDecision(now, Row(Stored)) # "reuse"

\* C13: a request that was handed a fresh account, whatever the token it
\* came with, ends with exactly the account's access credential, expiry and
\* refresh credential returned and stored, no error tag on token or session,
\* and without a call to the token endpoint.
C13_SignInStartsAfresh ==
  \A p \in Procs :
    Done(p) /\ req[p].bootstrap =>
      /\ ~req[p].thrown
      /\ Triple(req[p].result) = Triple(req[p].account[1])
      /\ Triple(Stored) = Triple(req[p].account[1])
      /\ req[p].result.error = NoError
      /\ Stored.error = NoError
      /\ req[p].session.error = NoError
      /\ req[p].calls = 0

\* C13 witness: a sign-in has finished whose incoming token carried the
\* error tag of a failed refresh, together with another credential
C13_Witness ==
  \E p \in Procs :
    /\ Done(p) /\ req[p].bootstrap
    /\ req[p].token.error = RefreshAccessTokenError
    /\ req[p].token.refresh_token # Absent
    /\ req[p].account[1].refresh_token # Absent
    /\ req[p].token.access_token # req[p].account[1].access_token

\* the caller persists what request p's evaluation returned
Persists(p) ==
  /\ req[p].pc = "returned" /\ req'[p].pc = "done"
  /\ jwt' = req[p].result
  /\ accounts' = accounts

\* the database session callback of request p writes the row itself, on
\* consuming a successful answer
WritesRowItself(p) ==
  /\ strategy = "database"
  /\ ConsumesGrant(p)
  /\ accounts' = <<Row(req'[p].result)>>
  /\ jwt' = jwt

\* C14 (as claimed): the store changes only in a step that persists the
\* tuple a finished evaluation has returned.
C14_OnlyCallerWrites ==
  [][Stores' # Stores => \E p \in Procs : req[p].pc = "returned"]_vars

\* C14 (amended): the store changes only when the caller persists a tuple the
\* jwt callback has returned, or when the database session callback, having
\* consumed a successful answer, updates the row itself; bootstrap, reuse and
\* failure evaluations write nothing themselves.
C14_WritesOnlyOnReturnOrGrant ==
  [][Stores' # Stores =>
       \E p \in Procs : Persists(p) \/ WritesRowItself(p)]_vars

\* C14 witness: a database request that refreshed has left its new tuple in
\* the row, and it differs from the tuple it read
C14_Witness ==
  \E p \in Procs :
    /\ strategy = "database"
    /\ Refreshed(p)
    /\ Triple(Stored) = Triple(req[p].result)
    /\ Triple(Stored) # Triple(Input(p))

\* C15: two failed exchanges on the same input tuple, whatever each was
\* answered with, end with the same returned tuple and the same session
\* object, and the only tag either can carry is RefreshAccessTokenError.
C15_PayloadStaysInLog ==
  \A p, q \in Procs :
    ExchangeFailed(p) /\ ExchangeFailed(q) /\ Input(p) = Input(q) =>
      /\ req[p].result = req[q].result
      /\ req[p].session = req[q].session
      /\ req[p].thrown = req[q].thrown
      /\ req[p].result.error \in {NoError, RefreshAccessTokenError}
      /\ req[p].session.error \in {NoError, RefreshAccessTokenError}
      /\ Status(p) = RefreshAccessTokenError

\* C15 witness: two requests on one input failed, one on a non-success
\* answer and one in transit
C15_Witness ==
  /\ ExchangeFailed(1) /\ ExchangeFailed(2)
  /\ Input(1) = Input(2)
  /\ req[1].responseTokens.failure = "server_error"
  /\ req[2].responseTokens.failure = "transport"

\* the request that follows a failed exchange is handed the same expiry and
\* the same refresh credential, still past expiry; the jwt callback sends it
\* to the token endpoint at once, the database callback has read the row
RetriesAfterFailure ==
  \A p, q \in Procs :
    ExchangeFailed(p) /\ Loads(q) /\ ~req'[q].bootstrap =>
      /\ Input(q)'.refresh_token = Input(p).refresh_token
      /\ Input(q)'.expires_at = Input(p).expires_at
      /\ Due(now, Input(q)')
      /\ strategy = "jwt" => req'[q].pc = "fetching" /\ req'[q].calls = 1
      /\ strategy = "database" =>
           /\ req'[q].pc = "found"
           /\ now > Input(q)'.expires_at * MsPerSec

\* the database callback sends every row it read past expiry to the token
\* endpoint, with the row it read
SendsWhenPastExpiry ==
  \A p \in Procs :
    /\ strategy = "database"
    /\ req[p].pc = "found" /\ req'[p].pc # "found"
    /\ HasInput(p)
    /\ now > Input(p).expires_at * MsPerSec
    => /\ req'[p].pc = "fetching" /\ req'[p].calls = 1
       /\ Input(p)' = Input(p)

\* the tuple a consumed successful answer produces is valid at that instant,
\* and it is the tuple that gets stored
GrantMakesValid(p) ==
  /\ now < req'[p].result.expires_at * MsPerSec
  /\ strategy = "database" => Triple(Stored') = Triple(req'[p].result)

StoresWhatWasReturned ==
  \A p \in Procs :
    strategy = "jwt" /\ req[p].pc = "returned" /\ req'[p].pc = "done" =>
      jwt' = req[p].result

\* C16 (as claimed): after a failed exchange the next request tries again
\* with the same refresh credential, and whenever the provider answers
\* successfully the tuple that is stored is valid, now < expiry.
C16_RetryRestoresValidity ==
  [][/\ RetriesAfterFailure
     /\ SendsWhenPastExpiry
     /\ StoresWhatWasReturned
     /\ \A p \in Procs : ConsumesGrant(p) => GrantMakesValid(p)
    ]_vars

\* C16 (amended): the same, for successful answers that grant a lifetime of
\* at least one second; validity is that of the instant the answer is
\* consumed.
C16_RetryRestoresValidityIfGranted ==
  [][/\ RetriesAfterFailure
     /\ SendsWhenPastExpiry
     /\ StoresWhatWasReturned
     /\ \A p \in Procs :
          ConsumesGrant(p) /\ req[p].responseTokens.expires_in >= 1 =>
            GrantMakesValid(p)
    ]_vars

\* C16 witness: a request whose input still carried the tag of a failed
\* exchange refreshed with the same credential, and the stored tuple is valid
C16_Witness ==
  \E p \in Procs :
    /\ Refreshed(p)
    /\ Input(p).error = RefreshAccessTokenError
    /\ req[p].responseTokens.expires_in >= 1
    /\ Triple(Stored) = Triple(req[p].result)
    /\ now < Stored.expires_at * MsPerSec

\* request p is running and no other request has overlapped it so far
Alone(p) == InFlight(p) /\ \A q \in Procs \ {p} : req[q].pc = "idle"

\* C17 (as claimed): no step of reuse and refresh requests, overlapping ones
\* included, lowers the stored expiry.
C17_ExpiryNeverDecreases ==
  [][Stored'.expires_at >= Stored.expires_at]_vars

\* C17 (amended): no step of a reuse or refresh request that no other
\* request overlapped lowers the stored expiry.
C17_ExpiryNeverDecreasesAlone ==
  [][(\E p \in Procs : Alone(p)) =>
       Stored'.expires_at >= Stored.expires_at]_vars

\* C17 witness: a request by itself refreshed, and the stored expiry is the
\* new, later one
C17_Witness ==
  \E p \in Procs :
    /\ Refreshed(p)
    /\ \A q \in Procs \ {p} : req[q].pc = "idle"
    /\ Triple(Stored) = Triple(req[p].result)
    /\ Stored.expires_at > Input(p).expires_at

\* C18: no step of reuse, refresh and failed-refresh requests, overlapping
\* ones included, takes a stored tuple that holds a refresh credential to
\* one that holds none.
C18_RefreshCredentialKept ==
  [][Stored.refresh_token # Absent => Stored'.refresh_token # Absent]_vars

\* C18 witness: an exchange whose answer held no refresh credential has
\* been stored, and the stored tuple holds the previous one
C18_Witness ==
  \E p \in Procs :
    /\ Refreshed(p)
    /\ req[p].responseTokens.refresh_token = Absent
    /\ Triple(Stored) = Triple(req[p].result)
    /\ Stored.refresh_token = Input(p).refresh_token
    /\ Stored.refresh_token # Absent
    /\ Stored.access_token # Input(p).access_token

====
